---- MODULE Spec2Model ----
\* A model of mailboxxy (src/src/lib.rs): MailBox / MailboxContext /
\* ReplyChannel over async_std channels, the spawn factories, the counter
\* actor mailbox_fn and the caller test_mb of the crate's tests.
EXTENDS Integers, Sequences, FiniteSets, TLC

\* ---------------------------------------------------------------- bounds
NumCallers == 2
MaxCap == 1
MaxOps == 2
MaxRc == 2

Callers == 1..NumCallers
\* The factory calls followed: a mailbox is started when a caller was handed it.
Mailboxes == {1, 2}
Rcs == 1..MaxRc

VARIABLES
    mbox,     \* [Mailboxes -> MailBox]: the caller-side handle (sender, handle)
    ctx,      \* [Mailboxes -> MailboxContext]: the actor-side handle (receiver)
    chan,     \* [Mailboxes -> channel]: the mailbox queues
    rchan,    \* [Rcs -> channel]: the reply channels made by ask
    nextRc,   \* the next reply channel ask will create
    actor,    \* [Mailboxes -> actor body's position and local state]
    caller,   \* [Callers -> caller's position and local state]
    deq,      \* history: [Callers -> seq of the caller's last message dequeued]
    applied,  \* history: [Callers -> net effect of the caller's messages on count]
    issued,   \* history: [Callers -> net effect of the posts the caller completed]
    accepted  \* history: [Rcs -> number of values the reply channel accepted]

vars == <<mbox, ctx, chan, rchan, nextRc, actor, caller, deq, applied, issued, accepted>>

\* ------------------------------------------------- MailboxBounds (l.42-45)
Unbounded == [kind |-> "Unbounded", n |-> 0]
Bounded(n) == [kind |-> "Bounded", n |-> n]
MailboxBounds == {Unbounded} \cup {Bounded(n) : n \in 0..MaxCap}

\* ------------------------------------------------------ TestMsg (l.119-123)
NoMsg == [kind |-> "none", rc |-> 0, from |-> 0, seq |-> 0]
Increment(c, s) == [kind |-> "Increment", rc |-> 0, from |-> c, seq |-> s]
Decrement(c, s) == [kind |-> "Decrement", rc |-> 0, from |-> c, seq |-> s]
GetValue(rc, c, s) == [kind |-> "GetValue", rc |-> rc, from |-> c, seq |-> s]
PostKinds == {"Increment", "Decrement"}

\* ------------------------------- the channel primitive (async_std::channel)
\* A channel with neither side alive is freed: NoChannel.
NoChannel ==
    [bounds |-> Unbounded, q |-> <<>>, closed |-> FALSE,
     sender |-> FALSE, receiver |-> FALSE]

\* channel::unbounded() / channel::bounded(n): an open channel, one Sender
\* and one Receiver.
NewChannel(b) ==
    [bounds |-> b, q |-> <<>>, closed |-> FALSE,
     sender |-> TRUE, receiver |-> TRUE]

\* channel::bounded(0) panics ("capacity cannot be zero").
BoundsPanic(b) == b.kind = "Bounded" /\ b.n = 0

\* (faulty variant: full one message before the capacity)
is_full_early(ch) == ch.bounds.kind = "Bounded" /\ Len(ch.q) + 1 >= ch.bounds.n
\* (faulty variant: the capacity is compared whatever the kind of bounds)
is_full_any(ch) == Len(ch.q) >= ch.bounds.n
\* (faulty variant: full only above the capacity)
is_full_above(ch) == ch.bounds.kind = "Bounded" /\ Len(ch.q) > ch.bounds.n
is_full(ch) == ch.bounds.kind = "Bounded" /\ Len(ch.q) >= ch.bounds.n

\* Sender::send_blocking: Err on a closed channel, waits while it is full.
SendResult(ch) ==
    IF ch.closed THEN "Err" ELSE IF is_full(ch) THEN "Blocked" ELSE "Ok"

\* (faulty variant: the value sent is lost)
PushNothing(ch, v) == ch
Push(ch, v) == [ch EXCEPT !.q = Append(@, v)]

\* (faulty variant: a closed channel is an error even with values queued)
RecvClosedFirst(ch) ==
    IF ch.closed THEN "Err" ELSE IF ch.q # <<>> THEN "Ok" ELSE "Blocked"
\* (faulty variant: an empty channel is an error at once, as with try_recv)
RecvNoWait(ch) == IF ch.q # <<>> THEN "Ok" ELSE "Err"
\* Receiver::recv: queued values first, Err once closed and drained, waits
\* otherwise.
RecvResult(ch) ==
    IF ch.q # <<>> THEN "Ok" ELSE IF ch.closed THEN "Err" ELSE "Blocked"

\* (faulty variant: the newest value instead of the oldest)
RecvLast(ch) == ch.q[Len(ch.q)]
RecvValue(ch) == Head(ch.q)

\* (faulty variant: removes the newest value)
PopLast(ch) == [ch EXCEPT !.q = SubSeq(@, 1, Len(@) - 1)]
Pop(ch) == [ch EXCEPT !.q = Tail(@)]

\* (faulty variant: close does nothing)
NoClose(ch) == ch
\* Sender::close
Close(ch) == [ch EXCEPT !.closed = TRUE]

\* (faulty variant: dropping the Sender discards what is queued)
DropSenderDiscard(ch) ==
    IF ~ch.receiver THEN NoChannel
    ELSE [ch EXCEPT !.sender = FALSE, !.closed = TRUE, !.q = <<>>]

\* Dropping the last Sender / Receiver closes the channel; with both gone the
\* channel and what it still queues are freed.
DropSender(ch) ==
    IF ~ch.receiver THEN NoChannel
    ELSE [ch EXCEPT !.sender = FALSE, !.closed = TRUE]

DropReceiver(ch) ==
    IF ~ch.sender THEN NoChannel
    ELSE [ch EXCEPT !.receiver = FALSE, !.closed = TRUE]

\* The ReplyChannels carried by queued messages.
RcsIn(q) == {q[i].rc : i \in DOMAIN q} \ {0}

\* Dropping ReplyChannel values drops their Senders (l.1-3).
DropReplyChannels(rch, ids) ==
    [r \in Rcs |-> IF r \in ids THEN DropSender(rch[r]) ELSE rch[r]]

\* The ReplyChannels freed with a mailbox channel: those still queued in it
\* when its second side goes.
FreedWith(ch, after) == IF after = NoChannel THEN RcsIn(ch.q) ELSE {}

\* ------------------------------------------------------------- test_mb
\* test_mb (l.142-152): the operations in order, and the asserted values.
TestMb == <<"Increment", "Increment", "Increment", "GetValue", "Decrement", "GetValue">>
TestExpect == <<0, 0, 0, 3, 0, 2>>

\* A caller that posts one Increment and then asks for the value.
IncAsk == <<"Increment", "GetValue">>

Progs == {"free", "test_mb", "inc_ask", "off"}
ProgConfigs ==
    { [c \in Callers |-> "free"],
      [c \in Callers |-> "inc_ask"],
      [c \in Callers |-> IF c = 1 THEN "test_mb" ELSE "off"] }

\* The calls made so far by the callers that choose their calls freely.
RECURSIVE FreeCalls(_)
FreeCalls(cs) ==
    IF cs = {} THEN 0
    ELSE LET c == CHOOSE x \in cs : TRUE
         IN  (IF caller[c].prog = "free" THEN caller[c].step ELSE 0)
             + FreeCalls(cs \ {c})

\* The operation kinds the caller may issue next: test_mb's next line,
\* IncAsk's next call, or any kind while the free callers have made fewer than
\* MaxOps calls.
NextKinds(c) ==
    CASE caller[c].prog = "test_mb" ->
           IF caller[c].step < Len(TestMb) THEN {TestMb[caller[c].step + 1]} ELSE {}
      [] caller[c].prog = "inc_ask" ->
           IF caller[c].step < Len(IncAsk) THEN {IncAsk[caller[c].step + 1]} ELSE {}
      [] caller[c].prog = "free" ->
           IF FreeCalls(Callers) < MaxOps
           THEN {"Increment", "Decrement", "GetValue"} ELSE {}
      [] OTHER -> {}

\* ------------------------------------------------------------------ Init
ActorBodies == {"mailbox_fn", "misbehaving"}
Strategies == {"task", "thread"}

NoActor == [pc |-> "none", body |-> "none", count |-> 0, msg |-> NoMsg, kept |-> {}]

\* Before any factory call: progs gives each caller its program, mbs the
\* mailbox it will be handed a reference to.
Setup(progs, mbs) ==
    /\ mbox = [m \in Mailboxes |-> [state |-> "none", sender |-> 0, handle |-> "none"]]
    /\ ctx = [m \in Mailboxes |-> [state |-> "none", receiver |-> 0]]
    /\ chan = [m \in Mailboxes |-> NoChannel]
    /\ rchan = [r \in Rcs |-> NoChannel]
    /\ nextRc = 1
    /\ actor = [m \in Mailboxes |-> NoActor]
    /\ caller = [c \in Callers |->
                   [pc |-> "idle", prog |-> progs[c], mb |-> mbs[c], step |-> 0,
                    msg |-> NoMsg, rc |-> 0,
                    got |-> FALSE, val |-> 0, for |-> 0, own |-> 0, sum |-> 0]]
    /\ deq = [c \in Callers |-> 0]
    /\ applied = [c \in Callers |-> 0]
    /\ issued = [c \in Callers |-> 0]
    /\ accepted = [r \in Rcs |-> 0]

\* One mailbox, shared by every caller.
Init == \E progs \in ProgConfigs : Setup(progs, [c \in Callers |-> 1])

\* ------------------------------------------------------- spawn factories
\* (faulty variant: the context gets the Receiver of another channel)
CrossedPair(m) == [s |-> m, r |-> CHOOSE k \in Mailboxes : k # m]
\* (faulty variant: every call hands out the halves of the first channel)
SharedPair(m) == [s |-> 1, r |-> 1]
\* The channel pair of the factory call for mailbox m (l.62-65): both halves
\* are the halves of one fresh channel.
ChannelPair(m) == [s |-> m, r |-> m]

\* start_mailbox_direct (l.55-72): channel pair per bounds, the context, the
\* constructor's handle, the MailBox. The constructor f spawns the body, which
\* starts with count = 0 at its first dequeue (l.128-131).
start_mailbox_direct(m, bounds, body, handle) ==
    /\ mbox[m].state = "none"
    /\ \E c \in Callers : caller[c].mb = m
    /\ IF BoundsPanic(bounds)
       THEN /\ mbox' = [mbox EXCEPT ![m].state = "panicked"]
            /\ UNCHANGED <<ctx, chan, actor>>
       ELSE LET pair == ChannelPair(m) IN
            /\ chan' = [chan EXCEPT ![pair.s] = NewChannel(bounds)]
            /\ ctx' = [ctx EXCEPT ![m] = [state |-> "live", receiver |-> pair.r]]
            /\ actor' = [actor EXCEPT ![m] =
                           [pc |-> "dequeue", body |-> body, count |-> 0,
                            msg |-> NoMsg, kept |-> {}]]
            /\ mbox' = [mbox EXCEPT ![m] =
                          [state |-> "live", sender |-> pair.s, handle |-> handle]]
    /\ UNCHANGED <<rchan, nextRc, caller, deq, applied, issued, accepted>>

\* start_mailbox (l.75-84): the direct factory with spawn(f(ctx)).
start_mailbox(m) ==
    \E bounds \in MailboxBounds, body \in ActorBodies, spawn \in Strategies :
        start_mailbox_direct(m, bounds, body, spawn)

\* start_mailbox_on_thread (l.87-102): a thread blocking on the body.
start_mailbox_on_thread(m) ==
    \E bounds \in MailboxBounds, body \in ActorBodies :
        start_mailbox_direct(m, bounds, body, "thread")

\* start_mailbox_as_task (l.104-114): the body as an async_std task.
start_mailbox_as_task(m) ==
    \E bounds \in MailboxBounds, body \in ActorBodies :
        start_mailbox_direct(m, bounds, body, "task")

\* ------------------------------------------------------------ the actor
\* The actor body ends (a panic unwinding it, or its return): its context is
\* dropped with the Receiver in it, and so are the ReplyChannels it holds.
ActorEnd(m, pcEnd, held) ==
    LET r == ctx[m].receiver
        after == DropReceiver(chan[r])
    IN  /\ actor' = [actor EXCEPT ![m].pc = pcEnd, ![m].msg = NoMsg, ![m].kept = {}]
        /\ ctx' = [ctx EXCEPT ![m].state = "dropped"]
        /\ chan' = [chan EXCEPT ![r] = after]
        /\ rchan' = DropReplyChannels(rchan, held \cup FreedWith(chan[r], after))

\* (faulty variant: a Decrement is ignored)
EffectNoDecrement(msg) == IF msg.kind = "Increment" THEN 1 ELSE 0
\* mailbox_fn's match on a message without a ReplyChannel (l.133-135): the
\* effect on count.
Effect(msg) ==
    CASE msg.kind = "Increment" -> 1
      [] msg.kind = "Decrement" -> -1
      [] OTHER -> 0

\* MailboxContext::dequeue (l.37-39) at l.131: recv().await.unwrap(), and the
\* match of l.133-135 on the message: Increment and Decrement update count
\* and loop, GetValue(rc) goes on to l.136.
dequeue(m) ==
    /\ actor[m].pc = "dequeue"
    /\ LET r == ctx[m].receiver
           res == RecvResult(chan[r])
       IN  /\ res # "Blocked"
           /\ IF res = "Ok"
              THEN LET msg == RecvValue(chan[r]) IN
                   /\ chan' = [chan EXCEPT ![r] = Pop(@)]
                   /\ actor' = IF msg.kind = "GetValue"
                               THEN [actor EXCEPT ![m].pc = "match", ![m].msg = msg]
                               ELSE [actor EXCEPT ![m].count = @ + Effect(msg)]
                   /\ applied' = [applied EXCEPT ![msg.from] = @ + Effect(msg)]
                   /\ deq' = [deq EXCEPT ![msg.from] = msg.seq]
                   /\ UNCHANGED <<ctx, rchan>>
              ELSE /\ ActorEnd(m, "panicked_dequeue", actor[m].kept)
                   /\ UNCHANGED <<deq, applied>>
    /\ UNCHANGED <<mbox, nextRc, caller, issued, accepted>>

\* mailbox_fn's match, l.136: GetValue(rc) calls rc.reply(count).
match(m) ==
    /\ actor[m].pc = "match"
    /\ actor' = [actor EXCEPT ![m].pc = "reply_send"]
    /\ UNCHANGED <<mbox, ctx, chan, rchan, nextRc, caller, deq, applied, issued, accepted>>

\* ReplyChannel::reply, l.7: send_blocking(value).unwrap().
reply_send(m) ==
    /\ actor[m].pc = "reply_send"
    /\ LET msg == actor[m].msg
           res == SendResult(rchan[msg.rc])
       IN  /\ res # "Blocked"
           /\ IF res = "Ok"
              THEN /\ rchan' = [rchan EXCEPT ![msg.rc] =
                                  Push(@, [val |-> actor[m].count, for |-> msg.from,
                                           own |-> applied[msg.from]])]
                   /\ accepted' = [accepted EXCEPT ![msg.rc] = @ + 1]
                   /\ actor' = [actor EXCEPT ![m].pc = "reply_close"]
                   /\ UNCHANGED <<ctx, chan>>
              ELSE /\ ActorEnd(m, "panicked_reply", actor[m].kept \cup {msg.rc})
                   /\ UNCHANGED accepted
    /\ UNCHANGED <<mbox, nextRc, caller, deq, applied, issued>>

\* ReplyChannel::reply, l.8: close(); then the match arm ends and drops rc
\* (l.136), and the loop goes back to dequeue.
reply_close(m) ==
    /\ actor[m].pc = "reply_close"
    /\ rchan' = [rchan EXCEPT ![actor[m].msg.rc] = DropSender(Close(@))]
    /\ actor' = [actor EXCEPT ![m].pc = "dequeue", ![m].msg = NoMsg]
    /\ UNCHANGED <<mbox, ctx, chan, nextRc, caller, deq, applied, issued, accepted>>

\* An actor body other than mailbox_fn: reply takes &self (l.6), so the body
\* can call it again on the same ReplyChannel after the close of l.8.
reply_again(m) ==
    /\ actor[m].pc = "reply_close"
    /\ actor[m].body = "misbehaving"
    /\ rchan' = [rchan EXCEPT ![actor[m].msg.rc] = Close(@)]
    /\ actor' = [actor EXCEPT ![m].pc = "reply_send"]
    /\ UNCHANGED <<mbox, ctx, chan, nextRc, caller, deq, applied, issued, accepted>>

\* ... or drop the ReplyChannel of a GetValue without replying (l.1-3),
drop_reply_channel(m) ==
    /\ actor[m].pc = "match"
    /\ actor[m].body = "misbehaving"
    /\ actor[m].msg.kind = "GetValue"
    /\ rchan' = DropReplyChannels(rchan, {actor[m].msg.rc})
    /\ actor' = [actor EXCEPT ![m].pc = "dequeue", ![m].msg = NoMsg]
    /\ UNCHANGED <<mbox, ctx, chan, nextRc, caller, deq, applied, issued, accepted>>

\* ... or keep it in its local state and never reply,
keep_reply_channel(m) ==
    /\ actor[m].pc = "match"
    /\ actor[m].body = "misbehaving"
    /\ actor[m].msg.kind = "GetValue"
    /\ actor' = [actor EXCEPT ![m].pc = "dequeue", ![m].msg = NoMsg,
                              ![m].kept = @ \cup {actor[m].msg.rc}]
    /\ UNCHANGED <<mbox, ctx, chan, rchan, nextRc, caller, deq, applied, issued, accepted>>

\* ... or leave its loop and return, dropping its MailboxContext (l.32-34).
actor_return(m) ==
    /\ actor[m].pc = "dequeue"
    /\ actor[m].body = "misbehaving"
    /\ ActorEnd(m, "returned", actor[m].kept)
    /\ UNCHANGED <<mbox, nextRc, caller, deq, applied, issued, accepted>>

\* ----------------------------------------------------------- the callers
\* The mailbox a caller holds a reference to is usable while it is alive.
CanCall(c) ==
    /\ caller[c].pc = "idle"
    /\ mbox[caller[c].mb].state = "live"

\* The number of the message a caller builds next (history).
NextSeq(c) == caller[c].step + 1

\* MailBox::post (l.18-20) is entered with msg.
post_call(c) ==
    /\ CanCall(c)
    /\ \E kind \in NextKinds(c) \cap PostKinds :
          caller' = [caller EXCEPT
                       ![c].pc = "post", ![c].step = @ + 1, ![c].got = FALSE,
                       ![c].val = 0, ![c].for = 0, ![c].own = 0, ![c].sum = 0,
                       ![c].msg = IF kind = "Increment" THEN Increment(c, NextSeq(c))
                                  ELSE Decrement(c, NextSeq(c))]
    /\ UNCHANGED <<mbox, ctx, chan, rchan, nextRc, actor, deq, applied, issued, accepted>>

\* What a send leaves in the queue.
\* (faulty variant: queues at the front)
PushFront(ch, v) == [ch EXCEPT !.q = <<v>> \o @]
Enqueue(ch, v) == Push(ch, v)

\* MailBox::post, l.19: sender.send_blocking(msg).unwrap(). On Err the
\* unwrap panics; the message comes back in the error and is dropped.
post(c) ==
    /\ caller[c].pc = "post"
    /\ LET s == mbox[caller[c].mb].sender
           msg == caller[c].msg
           res == SendResult(chan[s])
       IN  /\ res # "Blocked"
           /\ IF res = "Ok"
              THEN /\ chan' = [chan EXCEPT ![s] = Enqueue(@, msg)]
                   /\ caller' = [caller EXCEPT ![c].pc = "idle", ![c].msg = NoMsg]
                   /\ issued' = [issued EXCEPT ![c] =
                                   IF msg.kind = "Increment" THEN @ + 1 ELSE @ - 1]
              ELSE /\ caller' = [caller EXCEPT ![c].pc = "panicked_post", ![c].msg = NoMsg]
                   /\ UNCHANGED <<chan, issued>>
    /\ UNCHANGED <<mbox, ctx, rchan, nextRc, actor, deq, applied, accepted>>

\* The reply channel an ask creates (l.23): a fresh one.
\* (faulty variant: the channel of the previous ask)
StaleRc == IF nextRc > 1 THEN nextRc - 1 ELSE nextRc
FreshRc == nextRc

\* (faulty variant: a reply channel without a buffer)
ReplyRendezvous == Bounded(0)
\* The bounds of the reply channel, l.23: bounded(1).
ReplyBounds == Bounded(1)

\* MailBox::ask, l.23-26: the fresh bounded(1) channel, the ReplyChannel
\* around its Sender, the message cb builds from it.
ask_call(c) ==
    /\ CanCall(c)
    /\ "GetValue" \in NextKinds(c)
    /\ nextRc <= MaxRc
    /\ LET rc == FreshRc IN
       /\ rchan' = [rchan EXCEPT ![rc] = NewChannel(ReplyBounds)]
       /\ caller' = [caller EXCEPT
                       ![c].pc = "ask_send", ![c].step = @ + 1, ![c].got = FALSE,
                       ![c].val = 0, ![c].for = 0, ![c].own = 0, ![c].sum = 0,
                       ![c].rc = rc, ![c].msg = GetValue(rc, c, NextSeq(c))]
    /\ nextRc' = nextRc + 1
    /\ UNCHANGED <<mbox, ctx, chan, actor, deq, applied, issued, accepted>>

\* The net effect of the posts completed through mailbox m (history).
RECURSIVE SumIssued(_, _)
SumIssued(m, cs) ==
    IF cs = {} THEN 0
    ELSE LET c == CHOOSE x \in cs : TRUE
         IN  (IF caller[c].mb = m THEN issued[c] ELSE 0) + SumIssued(m, cs \ {c})

\* MailBox::ask, l.27: sender.send_blocking(msg).unwrap(). On Err the unwrap
\* panics: the message (with its ReplyChannel) and r are dropped.
ask_send(c) ==
    /\ caller[c].pc = "ask_send"
    /\ LET s == mbox[caller[c].mb].sender
           msg == caller[c].msg
           res == SendResult(chan[s])
       IN  /\ res # "Blocked"
           /\ IF res = "Ok"
              THEN /\ chan' = [chan EXCEPT ![s] = Enqueue(@, msg)]
                   /\ caller' = [caller EXCEPT ![c].pc = "ask_recv", ![c].msg = NoMsg,
                                               ![c].sum = SumIssued(caller[c].mb, Callers)]
                   /\ UNCHANGED rchan
              ELSE /\ caller' = [caller EXCEPT ![c].pc = "panicked_ask_send",
                                               ![c].msg = NoMsg, ![c].rc = 0]
                   /\ rchan' = [rchan EXCEPT ![caller[c].rc] = DropReceiver(DropSender(@))]
                   /\ UNCHANGED chan
    /\ UNCHANGED <<mbox, ctx, nextRc, actor, deq, applied, issued, accepted>>

\* test_mb's assert_eq! after an ask (l.147, l.151).
AssertFails(c, val) ==
    /\ caller[c].prog = "test_mb"
    /\ val # TestExpect[caller[c].step]

\* MailBox::ask, l.28: r.recv().await.unwrap(), and the return that drops r.
ask_recv(c) ==
    /\ caller[c].pc = "ask_recv"
    /\ LET rc == caller[c].rc
           res == RecvResult(rchan[rc])
       IN  /\ res # "Blocked"
           /\ IF res = "Ok"
              THEN LET v == RecvValue(rchan[rc]) IN
                   /\ rchan' = [rchan EXCEPT ![rc] = DropReceiver(Pop(@))]
                   /\ caller' = [caller EXCEPT
                                   ![c].pc = IF AssertFails(c, v.val)
                                             THEN "panicked_assert" ELSE "idle",
                                   ![c].rc = 0, ![c].got = TRUE, ![c].val = v.val,
                                   ![c].for = v.for, ![c].own = v.own]
              ELSE /\ rchan' = [rchan EXCEPT ![rc] = DropReceiver(@)]
                   /\ caller' = [caller EXCEPT ![c].pc = "panicked_ask_recv", ![c].rc = 0]
    /\ UNCHANGED <<mbox, ctx, chan, nextRc, actor, deq, applied, issued, accepted>>

\* The caller abandons its wait: the future of ask is dropped at the await of
\* l.28, and r with it.
ask_abandon(c) ==
    /\ caller[c].pc = "ask_recv"
    /\ caller[c].prog = "free"
    /\ rchan' = [rchan EXCEPT ![caller[c].rc] = DropReceiver(@)]
    /\ caller' = [caller EXCEPT ![c].pc = "idle", ![c].rc = 0, ![c].sum = 0]
    /\ UNCHANGED <<mbox, ctx, chan, nextRc, actor, deq, applied, issued, accepted>>

\* The MailBox is dropped (l.12-15) once no call borrows it: its Sender goes,
\* which closes the queue, and frees it when the context is gone too.
drop_mailbox(m) ==
    /\ mbox[m].state = "live"
    /\ \A c \in Callers :
          caller[c].mb = m => caller[c].pc \notin {"post", "ask_send", "ask_recv"}
    /\ LET s == mbox[m].sender
           after == DropSender(chan[s])
       IN  /\ chan' = [chan EXCEPT ![s] = after]
           /\ rchan' = DropReplyChannels(rchan, FreedWith(chan[s], after))
    /\ mbox' = [mbox EXCEPT ![m].state = "dropped"]
    /\ UNCHANGED <<ctx, nextRc, actor, caller, deq, applied, issued, accepted>>

\* ------------------------------------------------------------------ Next
Next ==
    \/ \E m \in Mailboxes : start_mailbox(m)
    \/ \E m \in Mailboxes : start_mailbox_on_thread(m)
    \/ \E m \in Mailboxes : start_mailbox_as_task(m)
    \/ \E m \in Mailboxes : dequeue(m)
    \/ \E m \in Mailboxes : match(m)
    \/ \E m \in Mailboxes : reply_send(m)
    \/ \E m \in Mailboxes : reply_close(m)
    \/ \E m \in Mailboxes : reply_again(m)
    \/ \E m \in Mailboxes : drop_reply_channel(m)
    \/ \E m \in Mailboxes : keep_reply_channel(m)
    \/ \E m \in Mailboxes : actor_return(m)
    \/ \E c \in Callers : post_call(c)
    \/ \E c \in Callers : post(c)
    \/ \E c \in Callers : ask_call(c)
    \/ \E c \in Callers : ask_send(c)
    \/ \E c \in Callers : ask_recv(c)
    \/ \E c \in Callers : ask_abandon(c)
    \/ \E m \in Mailboxes : drop_mailbox(m)

Spec == Init /\ [][Next]_vars

\* The system of the tests (l.155-176): a factory call with mailbox_fn as the
\* actor body, under either strategy,
start_counter(m) ==
    \E bounds \in MailboxBounds, spawn \in Strategies :
        start_mailbox_direct(m, bounds, "mailbox_fn", spawn)

\* ... callers that post and ask and await every reply, and a MailBox that
\* outlives them.
NextCounter ==
    \/ \E m \in Mailboxes : start_counter(m)
    \/ \E m \in Mailboxes : dequeue(m)
    \/ \E m \in Mailboxes : match(m)
    \/ \E m \in Mailboxes : reply_send(m)
    \/ \E m \in Mailboxes : reply_close(m)
    \/ \E c \in Callers : post_call(c)
    \/ \E c \in Callers : post(c)
    \/ \E c \in Callers : ask_call(c)
    \/ \E c \in Callers : ask_send(c)
    \/ \E c \in Callers : ask_recv(c)

SpecCounter == Init /\ [][NextCounter]_vars

\* The actor runs on its own thread (l.96-100) or as a task of the executor
\* (l.83, l.113) and the callers on theirs: each process that can keep taking
\* its step is scheduled to take it. The waits are the full queue in
\* send_blocking and the empty channel in recv.
Fairness ==
    /\ \A m \in Mailboxes :
          /\ WF_vars(dequeue(m))
          /\ WF_vars(match(m))
          /\ WF_vars(reply_send(m))
          /\ WF_vars(reply_close(m))
    /\ \A c \in Callers :
          /\ WF_vars(post(c))
          /\ WF_vars(ask_send(c))
          /\ WF_vars(ask_recv(c))

SpecLive == SpecCounter /\ Fairness

\* Two mailboxes from separate factory calls: the first caller is handed the
\* first, the others the second.
InitTwo ==
    \E progs \in ProgConfigs : Setup(progs, [c \in Callers |-> IF c = 1 THEN 1 ELSE 2])

SpecTwo == InitTwo /\ [][NextCounter]_vars

\* ================================================================ claims
\* The queue of the mailbox a caller uses, and the caller's messages in it.
QueueOf(c) == chan[ctx[caller[c].mb].receiver].q
FromIn(q, c) == SelectSeq(q, LAMBDA x : x.from = c)

RECURSIVE SumEffects(_)
SumEffects(q) == IF q = <<>> THEN 0 ELSE Effect(Head(q)) + SumEffects(Tail(q))

RECURSIVE SumApplied(_)
SumApplied(cs) ==
    IF cs = {} THEN 0
    ELSE LET c == CHOOSE x \in cs : TRUE IN applied[c] + SumApplied(cs \ {c})

\* The messages a caller's completed sends have queued (history).
Enqueued(c) ==
    IF caller[c].pc \in {"post", "ask_send", "panicked_post", "panicked_ask_send"}
    THEN caller[c].step - 1 ELSE caller[c].step

\* No other caller has made a call.
Alone(c) == \A d \in Callers \ {c} : caller[d].step = 0

\* C1: the value an ask returns reflects exactly the posts its caller issued
\* before it: the caller's own share of the replied count is the net effect of
\* its completed posts, the value is that net effect when no other caller has
\* called, and test_mb's asserts (3, then 2) never fail, on either strategy.
C1_AskReflectsPosts ==
    \A c \in Callers :
        /\ caller[c].pc # "panicked_assert"
        /\ caller[c].got =>
              /\ caller[c].own = issued[c]
              /\ Alone(c) => caller[c].val = issued[c]

C1_Witness ==
    /\ caller[1].prog = "test_mb"
    /\ caller[1].step = Len(TestMb)
    /\ caller[1].got
    /\ caller[1].val = 2
    /\ mbox[1].handle = "thread"

\* C2: the actor dequeues one poster's messages in the order they were posted:
\* each message dequeued from a caller is later in that caller's order than
\* every message dequeued from it before.
C2_PerPosterFifo ==
    [][\A c \in Callers : deq'[c] # deq[c] => deq'[c] > deq[c]]_vars

C2_Witness ==
    \E c \in Callers :
        /\ deq[c] = 2
        /\ mbox[caller[c].mb].state = "live"
        /\ chan[mbox[caller[c].mb].sender].bounds = Unbounded

\* C3: no message is lost or duplicated while the actor runs: the messages of
\* a caller still queued are exactly those enqueued and not yet dequeued, once
\* each and in order; the posts' effects are either applied or still queued;
\* count is the sum of what was applied.
C3_NoLossNoDup ==
    \A c \in Callers :
        LET m == caller[c].mb IN
        ctx[m].state = "live" =>
            LET mine == FromIn(QueueOf(c), c) IN
            /\ Len(mine) = Enqueued(c) - deq[c]
            /\ \A i \in DOMAIN mine : mine[i].seq = deq[c] + i
            /\ applied[c] + SumEffects(mine) = issued[c]
            /\ actor[m].count = SumApplied({d \in Callers : caller[d].mb = m})

C3_Witness ==
    /\ caller[1].prog = "test_mb"
    /\ caller[1].step = 4
    /\ caller[1].got
    /\ deq[1] = 4
    /\ applied[1] = 3
    /\ actor[1].count = 3

\* C4: a ReplyChannel accepts at most one value, and a reply attempted after
\* the first finds the channel closed and delivers nothing.
C4_AtMostOneReply ==
    /\ \A r \in Rcs : accepted[r] <= 1
    /\ \A m \in Mailboxes :
          (actor[m].pc = "reply_send" /\ accepted[actor[m].msg.rc] = 1)
              => SendResult(rchan[actor[m].msg.rc]) = "Err"

C4_Witness ==
    \E m \in Mailboxes :
        /\ actor[m].pc = "reply_send"
        /\ accepted[actor[m].msg.rc] = 1

\* C5: every ask has a reply channel of its own, and the value it returns is
\* the one replied to its own request.
C5_AskGetsOwnReply ==
    /\ \A c \in Callers : caller[c].got => caller[c].for = c
    /\ \A c, d \in Callers :
          (c # d /\ caller[c].rc # 0) => caller[c].rc # caller[d].rc
    /\ \A c \in Callers : \A r \in Rcs :
          \A i \in DOMAIN rchan[r].q :
              (caller[c].pc = "ask_recv" /\ caller[c].rc = r) => rchan[r].q[i].for = c

C5_Witness ==
    \E c, d \in Callers :
        /\ c # d
        /\ caller[c].got
        /\ caller[c].for = c
        /\ caller[d].pc = "ask_recv"
        /\ rchan[caller[d].rc].q # <<>>

\* The caller is inside a send_blocking on its mailbox.
Sending(c) == caller[c].pc \in {"post", "ask_send"}

\* C6: a Bounded(n) queue never holds more than n messages; a send completes
\* only from a queue holding fewer than n, and with room in an open queue
\* the send can complete.
C6_BoundedCapacity ==
    /\ \A m \in Mailboxes :
          chan[m].bounds.kind = "Bounded" => Len(chan[m].q) <= chan[m].bounds.n
    /\ \A c \in Callers :
          Sending(c) =>
              LET ch == chan[mbox[caller[c].mb].sender] IN
              /\ (~ch.closed /\ is_full(ch)) => ~ENABLED (post(c) \/ ask_send(c))
              /\ (~ch.closed /\ ~is_full(ch)) => ENABLED (post(c) \/ ask_send(c))

C6_Witness ==
    \E c \in Callers :
        /\ caller[c].pc = "post"
        /\ chan[1].bounds = Bounded(1)
        /\ Len(chan[1].q) = 1
        /\ ~chan[1].closed

\* C7: with the MailBox dropped and the queue drained, the actor's next
\* dequeue hands the loop an end-of-stream result and the actor is not
\* crashed by it.
C7_DequeueEndOfStream ==
    \A m \in Mailboxes :
        mbox[m].state = "dropped" => actor[m].pc # "panicked_dequeue"

\* C8: an ask whose ReplyChannel the actor dropped without a reply comes back
\* to its caller with a failure indication; the caller is not aborted.
C8_AskCancelled ==
    \A c \in Callers : caller[c].pc # "panicked_ask_recv"

\* C9: a reply on a ReplyChannel whose asker has abandoned the wait is a
\* recoverable failure: the actor is not aborted, its count and its queue are
\* unchanged, and it still holds its context to dequeue later messages.
C9_ReplyFailedRecoverable ==
    [][\A m \in Mailboxes :
          ( /\ actor[m].pc = "reply_send"
            /\ ~rchan[actor[m].msg.rc].receiver
            /\ accepted[actor[m].msg.rc] = 0
            /\ actor'[m] # actor[m] )
          => /\ actor'[m].pc # "panicked_reply"
             /\ actor'[m].count = actor[m].count
             /\ chan' = chan
             /\ ctx'[m].state = "live"]_vars

\* C10: a post, or the post step of an ask, on a mailbox whose actor has ended
\* and dropped its context returns a failure result; the caller is not aborted.
C10_PostFailedReturned ==
    \A c \in Callers : caller[c].pc \notin {"panicked_post", "panicked_ask_send"}

\* C11: commuting posts of concurrent callers are all applied: the value an
\* ask returns is the net effect of every post, of any caller, completed on
\* the mailbox before the ask's request was queued, whatever the interleaving.
C11_ConcurrentPostsSum ==
    \A c \in Callers : caller[c].got => caller[c].val = caller[c].sum

C11_Witness ==
    \E c, d \in Callers :
        /\ c # d
        /\ issued[c] = 1
        /\ issued[d] = 1
        /\ caller[c].got
        /\ caller[c].val = 2
        /\ caller[d].pc = "ask_recv"

\* The callers that were handed mailbox m.
CallersOf(m) == {c \in Callers : caller[c].mb = m}

\* C12: mailboxes from separate factory calls have disjoint queues: what the
\* context of one mailbox has queued, holds or has counted was posted or asked
\* through that mailbox, never through the other.
C12_DisjointQueues ==
    \A m \in Mailboxes :
        ctx[m].state = "live" =>
            LET q == chan[ctx[m].receiver].q IN
            /\ \A i \in DOMAIN q : q[i].from \in CallersOf(m)
            /\ actor[m].msg # NoMsg => actor[m].msg.from \in CallersOf(m)
            /\ actor[m].count = SumApplied(CallersOf(m))
            /\ \A k \in Mailboxes \ {m} :
                  mbox[k].state = "live" => mbox[k].sender # ctx[m].receiver

C12_Witness ==
    /\ ctx[1].state = "live"
    /\ ctx[2].state = "live"
    /\ actor[1].count = 1
    /\ actor[2].count = -1
    /\ deq[1] = 1
    /\ deq[2] = 1

\* C13: while the actor keeps the ReplyChannel of a GetValue it dequeued and
\* does not reply, the ask that sent it is suspended: nothing is buffered for
\* it, its channel is open, and its recv can neither return a value nor fail.
C13_KeptReplyChannelSuspends ==
    \A c \in Callers :
        (caller[c].pc = "ask_recv" /\ caller[c].rc \in actor[caller[c].mb].kept) =>
            /\ RecvResult(rchan[caller[c].rc]) = "Blocked"
            /\ ~ENABLED ask_recv(c)

C13_Witness ==
    \E c \in Callers :
        /\ caller[c].pc = "ask_recv"
        /\ caller[c].rc \in actor[caller[c].mb].kept
        /\ deq[c] = caller[c].step
        /\ actor[caller[c].mb].pc = "dequeue"
        /\ chan[ctx[caller[c].mb].receiver].q = <<>>

\* C14: a send on an Unbounded mailbox never waits, however many messages are
\* queued: a caller inside post can always take its step, and on an open
\* queue that step is the enqueue.
C14_UnboundedPostNeverWaits ==
    \A c \in Callers :
        (caller[c].pc = "post" /\ chan[mbox[caller[c].mb].sender].bounds = Unbounded) =>
            LET ch == chan[mbox[caller[c].mb].sender] IN
            /\ SendResult(ch) # "Blocked"
            /\ ~ch.closed => SendResult(ch) = "Ok"
            /\ ENABLED post(c)

C14_Witness ==
    \E c \in Callers :
        /\ caller[c].pc = "post"
        /\ chan[1].bounds = Unbounded
        /\ ~chan[1].closed
        /\ Len(chan[1].q) > MaxCap
        /\ actor[1].pc = "dequeue"

\* C15: with mailbox_fn as the actor (it never returns and replies once to
\* each GetValue) and every process scheduled fairly, every ask returns a
\* value and every post completes, on Unbounded and on Bounded(n >= 1).
C15_AskAndPostComplete ==
    \A c \in Callers :
        /\ (caller[c].pc \in {"ask_send", "ask_recv"})
              ~> (caller[c].pc = "idle" /\ caller[c].got)
        /\ (caller[c].pc = "post") ~> (caller[c].pc = "idle")

C15_Witness ==
    \E c, d \in Callers :
        /\ c # d
        /\ chan[1].bounds = Bounded(1)
        /\ caller[c].pc = "ask_recv" /\ accepted[caller[c].rc] = 0
        /\ caller[d].pc = "post" /\ is_full(chan[1])
        /\ ~ENABLED post(d)

\* A step of a process that is inside a call or inside the actor loop (not
\* the start of a new call).
Progress ==
    \/ \E m \in Mailboxes : dequeue(m) \/ match(m) \/ reply_send(m) \/ reply_close(m)
    \/ \E c \in Callers : post(c) \/ ask_send(c) \/ ask_recv(c)

\* C20: with an actor that only dequeues and replies, on a Bounded(n >= 1)
\* mailbox (and on an Unbounded one), whenever a message is queued or a caller
\* is inside post or ask, some process that is inside a call or the actor
\* loop can take a step.
C20_DeadlockFree ==
    ( \/ \E c \in Callers : caller[c].pc \in {"post", "ask_send", "ask_recv"}
      \/ \E m \in Mailboxes : ctx[m].state = "live" /\ chan[ctx[m].receiver].q # <<>> )
    => ENABLED Progress

C20_Witness ==
    \E c, d \in Callers :
        /\ c # d
        /\ chan[1].bounds = Bounded(1)
        /\ is_full(chan[1])
        /\ caller[c].pc = "ask_recv" /\ caller[d].pc = "ask_send"
        /\ ~ENABLED (ask_recv(c) \/ ask_send(d))
        /\ actor[1].pc = "reply_send"

\* C16: dropping the MailBox discards nothing that was queued: after the drop
\* the queue still holds, for each caller, exactly its messages not yet
\* dequeued, and when the actor's dequeue finds the end of the stream every
\* message a completed send had queued has been dequeued and every post
\* applied.
C16_QueuedSurviveDrop ==
    \A m \in Mailboxes :
        mbox[m].state = "dropped" =>
            \A c \in CallersOf(m) :
                /\ ctx[m].state = "live" =>
                      Len(FromIn(chan[ctx[m].receiver].q, c)) = Enqueued(c) - deq[c]
                /\ actor[m].pc = "panicked_dequeue" =>
                      /\ deq[c] = Enqueued(c)
                      /\ applied[c] = issued[c]

C16_Witness ==
    /\ mbox[1].state = "dropped"
    /\ ctx[1].state = "live"
    /\ chan[1].closed
    /\ Len(chan[1].q) = MaxOps
    /\ actor[1].pc = "dequeue"

\* The contexts that read a channel.
ConsumersOf(k) == {m \in Mailboxes : ctx[m].state = "live" /\ ctx[m].receiver = k}

\* C17: a factory call makes one MailboxContext, bound to the queue of the
\* MailBox it returns, and starts the actor body with it once; the context of
\* a mailbox is never made again or rebound, and a queue whose Receiver is
\* alive has exactly one context reading it.
C17_OneContextPerMailbox ==
    /\ [](\A m \in Mailboxes :
            mbox[m].state \in {"live", "dropped"} =>
                /\ ctx[m].state # "none"
                /\ actor[m].pc # "none"
                /\ ctx[m].receiver = mbox[m].sender)
    /\ [](\A k \in Mailboxes :
            /\ Cardinality(ConsumersOf(k)) <= 1
            /\ chan[k].receiver => ConsumersOf(k) = {k})
    /\ [][\A m \in Mailboxes :
            ctx[m].state # "none" =>
                /\ ctx'[m].receiver = ctx[m].receiver
                /\ ctx'[m].state \in {ctx[m].state, "dropped"}
                /\ actor'[m].pc # "none"
                /\ actor'[m].body = actor[m].body]_vars

C17_Witness ==
    /\ mbox[1].state = "live" /\ mbox[2].state = "live"
    /\ ConsumersOf(1) = {1} /\ ConsumersOf(2) = {2}
    /\ actor[1].pc = "reply_send" /\ actor[2].pc = "reply_send"

\* C18: the first reply on a ReplyChannel never waits: when the actor is at
\* the send of reply and nothing has been sent on that channel, the send can
\* take its step, and with the asker's Receiver alive it buffers the value.
C18_FirstReplyNeverBlocks ==
    \A m \in Mailboxes :
        (actor[m].pc = "reply_send" /\ accepted[actor[m].msg.rc] = 0) =>
            LET ch == rchan[actor[m].msg.rc] IN
            /\ SendResult(ch) # "Blocked"
            /\ ch.receiver => SendResult(ch) = "Ok"
            /\ ENABLED reply_send(m)

C18_Witness ==
    \E m \in Mailboxes, c \in Callers :
        /\ actor[m].pc = "reply_close"
        /\ actor[m].msg.from = c
        /\ caller[c].pc = "ask_recv"
        /\ caller[c].rc = actor[m].msg.rc
        /\ accepted[caller[c].rc] = 1
        /\ Len(rchan[caller[c].rc].q) = 1
        /\ ~rchan[caller[c].rc].closed

\* C19: the close that follows the send of a reply does not lose the value:
\* an asker still waiting after a value was sent on its reply channel finds
\* the value there, closed or not, and its recv returns it rather than the
\* closed channel's error.
C19_ReplySurvivesClose ==
    /\ [](\A c \in Callers :
            (caller[c].pc = "ask_recv" /\ accepted[caller[c].rc] >= 1) =>
                /\ rchan[caller[c].rc].q # <<>>
                /\ RecvResult(rchan[caller[c].rc]) = "Ok"
                /\ ENABLED ask_recv(c))
    /\ [][\A c \in Callers :
            ( /\ caller[c].pc = "ask_recv"
              /\ accepted[caller[c].rc] >= 1
              /\ rchan[caller[c].rc].closed
              /\ caller'[c].pc # "ask_recv" )
            => \/ /\ caller'[c].got
                  /\ caller'[c].val = Head(rchan[caller[c].rc].q).val
               \/ ask_abandon(c)]_vars

C19_Witness ==
    \E c \in Callers :
        /\ caller[c].pc = "ask_recv"
        /\ rchan[caller[c].rc].closed
        /\ ~rchan[caller[c].rc].sender
        /\ Len(rchan[caller[c].rc].q) = 1
        /\ actor[caller[c].mb].pc = "dequeue"

====
